---- MODULE Spec2Model ----
(***************************************************************************)
(* Lazy substitution enumerator of workload_iter (src/src/main.rs).        *)
(*                                                                         *)
(* A Workload (plan) is Set(items) or Plug(wkld, hole, pegs).  into_iter   *)
(* turns a Set into a vector iterator and a Plug into                      *)
(*   wkld.into_iter().map(SexpSubstIter::new(..)).flatten()                *)
(* SexpSubstIter::next is a stack machine; each pass through its body is   *)
(* one step of the model for the outermost iterator, while the iterators   *)
(* it pulls from (the pegs of a frame, the source of a Plug) are advanced  *)
(* by a whole call of their next().                                        *)
(***************************************************************************)
EXTENDS Naturals, Integers, Sequences, FiniteSets, TLC

(***************************************************************************)
(* Bounds                                                                  *)
(***************************************************************************)
MaxPegs   == 3   \* numeric peg lists [0 .. m-1] for m in 0..MaxPegs
MaxDepth  == 5   \* frames a work list may hold before the run is out of memory
MaxNones  == 2   \* pulls that may report end of sequence per enumeration
MaxRounds == 2   \* enumerations of the plan from scratch

(***************************************************************************)
(* State                                                                   *)
(***************************************************************************)
VARIABLES
  plan,     \* the Workload being enumerated
  iter,     \* iter[i]: the iterator wkld.into_iter() of enumeration i
  pc,       \* pc[i]: "idle" between pulls, "next" inside next(), "abort"
  out,      \* out[i]: the expressions next() has returned so far
  nones,    \* nones[i]: how often next() has returned None
  round,    \* round[i]: which enumeration of the plan this is
  prevOut   \* prevOut[i]: what the previous enumeration returned

vars == <<plan, iter, pc, out, nones, round, prevOut>>

(***************************************************************************)
(* Option<T>: None is the empty sequence, Some(x) the one-element sequence *)
(***************************************************************************)
None    == <<>>
Some(x) == <<x>>

\* F applied to the value of x, which is computed once
Bind(x, F(_)) == CHOOSE y \in {F(v) : v \in {x}} : TRUE

(***************************************************************************)
(* enum Sexp { Atom(String), List(Vec<Sexp>) }                             *)
(***************************************************************************)
Atom(s) == [tag |-> "Atom", atom |-> s]
List(l) == [tag |-> "List", list |-> l]

RECURSIVE first(_, _), find_map(_, _, _), find_map_rev(_, _, _)
\* first, looking only at the expression itself and its direct children
first_shallow(s, needle) ==
  IF s.tag = "Atom"
  THEN IF s.atom = needle THEN Some(<<>>) ELSE None
  ELSE LET hits == {j \in 1..Len(s.list) :
                      s.list[j].tag = "Atom" /\ s.list[j].atom = needle}
       IN IF hits = {} THEN None
          ELSE Some(<< CHOOSE j \in hits : \A h \in hits : j <= h >>)

\* Sexp::first: the position (path of child indices) of the first atom equal
\* to needle, pre-order, left to right; None when there is none.
first(s, needle) ==
  IF s.tag = "Atom"
  THEN IF s.atom = needle THEN Some(<<>>) ELSE None
  ELSE find_map(s.list, 1, needle)

\* find_map, visiting the children from the last to the first
find_map_rev(list, i, needle) ==
  IF i > Len(list) THEN None
  ELSE LET idx == Len(list) + 1 - i
           r   == first(list[idx], needle)
       IN IF r # None THEN Some(<<idx>> \o r[1])
          ELSE find_map_rev(list, i + 1, needle)

\* list.into_iter().find_map(|s| s.first(needle)), from child i on
find_map(list, i, needle) ==
  IF i > Len(list) THEN None
  ELSE LET r == first(list[i], needle)
       IN IF r # None THEN Some(<<i>> \o r[1])
          ELSE find_map(list, i + 1, needle)

\* assign_at, overwriting the whole copy instead of the node found
assign_at_root(s, path, new) == new

RECURSIVE assign_at(_, _, _)
\* *ptr = new.clone(): the copy with the node at path replaced by new
assign_at(s, path, new) ==
  IF path = <<>> THEN new
  ELSE List([s.list EXCEPT ![Head(path)] = assign_at(@, Tail(path), new)])

RECURSIVE subst_all(_, _, _)
\* s with every atom equal to needle replaced by new
subst_all(s, needle, new) ==
  IF s.tag = "Atom" THEN (IF s.atom = needle THEN new ELSE s)
  ELSE IF s.list = <<>> THEN s
  ELSE List([j \in 1..Len(s.list) |-> subst_all(s.list[j], needle, new)])

\* replace_first, replacing every occurrence instead of the first
replace_first_all(s, needle, new) ==
  IF first(s, needle) # None THEN Some(subst_all(s, needle, new)) ELSE None

\* replace_first, with the copy returned as it was cloned
replace_first_keep(s, needle, new) ==
  IF first(s, needle) # None THEN Some(s) ELSE None

\* Sexp::replace_first
replace_first(s, needle, new) ==
  LET ptr == first(s, needle)
  IN IF ptr # None THEN Some(assign_at(s, ptr[1], new)) ELSE None

(***************************************************************************)
(* enum Workload { Set(Vec<Sexp>), Plug(Box<Self>, String, Box<Self>) }    *)
(***************************************************************************)
Set(v) == [tag |-> "Set", items |-> v]
Plug(wkld, hole, pegs) == [tag |-> "Plug", wkld |-> wkld, hole |-> hole, pegs |-> pegs]

RECURSIVE IntoIter(_)
\* into_iter, with the source of a chained Plug taken unplugged
IntoIter_skipInner(w) ==
  IF w.tag = "Set"
  THEN [tag |-> "VecIter", rest |-> w.items]
  ELSE [tag |-> "Flatten",
        iter |-> IF w.wkld.tag = "Plug" THEN IntoIter(w.wkld.wkld) ELSE IntoIter(w.wkld),
        hole |-> w.hole, pegs |-> w.pegs, frontiter |-> None]

\* Workload::into_iter: a vector iterator, or the flattening of one
\* SexpSubstIter per expression of wkld (frontiter is Flatten's current one)
IntoIter(w) ==
  IF w.tag = "Set"
  THEN [tag |-> "VecIter", rest |-> w.items]
  ELSE [tag |-> "Flatten", iter |-> IntoIter(w.wkld), hole |-> w.hole,
        pegs |-> w.pegs, frontiter |-> None]

\* spawn_iterator, with one pegs enumeration shared by all enumerators and
\* left empty once any of them has reached the end
spawn_iterator_shared(pegs) ==
  IF \E j \in {1, 2} : nones[j] >= 1 THEN IntoIter(Set(<<>>)) ELSE IntoIter(pegs)

\* spawn_iterator, handing out an enumeration that is past its first peg
spawn_iterator_skipFirst(pegs) ==
  IF pegs.tag = "Set" /\ pegs.items # <<>>
  THEN [tag |-> "VecIter", rest |-> Tail(pegs.items)]
  ELSE IntoIter(pegs)

\* spawn_iterator, with pegs left empty by an enumeration that has ended
spawn_iterator_drained(pegs) ==
  IF round[1] > 1 THEN IntoIter(Set(<<>>)) ELSE IntoIter(pegs)

\* (self.spawn_iterator)(): move || pegs.clone().into_iter()
spawn_iterator(pegs) == IntoIter(pegs)

\* a frame of the work list: (Sexp, I)
Frame(sexp, it) == [sexp |-> sexp, iter |-> it]

\* SexpSubstIter::new
SexpSubstIter_new(inital_sexp, needle, pegs) ==
  [tag |-> "SexpSubstIter", needle |-> needle, pegs |-> pegs,
   stack |-> << Frame(inital_sexp, spawn_iterator(pegs)) >>]

\* the result of one call of next() or of one step of it
Result(br, val, it) == [br |-> br, val |-> val, it |-> it]

\* VecNext, stepping over the element behind the one returned
VecNext_skip(it) ==
  IF it.rest = <<>> THEN Result("vec_none", None, it)
  ELSE Result("vec_some", Some(Head(it.rest)),
              [it EXCEPT !.rest = IF Len(@) >= 2 THEN Tail(Tail(@)) ELSE Tail(@)])

\* std::vec::IntoIter::next
VecNext(it) ==
  IF it.rest = <<>> THEN Result("vec_none", None, it)
  ELSE Result("vec_some", Some(Head(it.rest)), [it EXCEPT !.rest = Tail(@)])

\* PushFrames, with the child frame pushed twice
PushFrames_childTwice(child, parent, rest) == <<child>> \o <<child>> \o <<parent>> \o rest

\* the work list after a child frame is spawned: the parent goes back to the
\* front, then the child is pushed in front of it
PushFrames(child, parent, rest) == <<child>> \o <<parent>> \o rest

\* YieldFrames, with the leaf's frame pushed back
YieldFrames_keep(parent, rest) == <<parent>> \o rest

\* the work list after a leaf is yielded: the leaf's frame is not pushed back
YieldFrames(parent, rest) == rest

\* DiscardFrames, dropping the frame behind the exhausted one as well
DiscardFrames_two(parent, rest) == IF rest = <<>> THEN rest ELSE Tail(rest)

\* the work list after the front frame's iterator is found exhausted
DiscardFrames(parent, rest) == rest

RECURSIVE IterNext(_), SubstStep(_), SubstNext(_), FlattenStep(_), FlattenNext(_)

\* SubstStep, with the occurrence looked for before a peg is pulled
SubstStep_checkFirst(ssi) ==
  IF ssi.stack = <<>> THEN Result("empty", None, ssi)
  ELSE
    LET parent == Head(ssi.stack)
        rest   == Tail(ssi.stack)
    IN  IF first(parent.sexp, ssi.needle) = None
        THEN Result("yield", Some(parent.sexp), [ssi EXCEPT !.stack = rest])
        ELSE Bind(IterNext(parent.iter), LAMBDA nx :
          IF nx.br = "abort" THEN Result("abort", None, ssi)
          ELSE IF nx.br = "some"
          THEN IF Len(ssi.stack) >= MaxDepth
               THEN Result("abort", None, ssi)
               ELSE Result("spawn", None,
                      [ssi EXCEPT !.stack =
                         PushFrames(Frame(replace_first(parent.sexp, ssi.needle, nx.val[1])[1],
                                          spawn_iterator(ssi.pegs)),
                                    Frame(parent.sexp, nx.it), rest)])
          ELSE Result("discard", None, [ssi EXCEPT !.stack = rest]))

\* One pass through the body of SexpSubstIter::next, up to the tail call
\* self.next() or the return.  br says which branch was taken.
SubstStep(ssi) ==
  IF ssi.stack = <<>> THEN Result("empty", None, ssi)
  ELSE
    LET parent == Head(ssi.stack)
        rest   == Tail(ssi.stack)
    IN  Bind(IterNext(parent.iter), LAMBDA nx :
          IF nx.br = "abort" THEN Result("abort", None, ssi)
          ELSE IF nx.br = "some"
          THEN Bind(replace_first(parent.sexp, ssi.needle, nx.val[1]), LAMBDA child :
                 IF child # None
                 THEN IF Len(ssi.stack) >= MaxDepth
                      THEN Result("abort", None, ssi)
                      ELSE Result("spawn", None,
                             [ssi EXCEPT !.stack =
                                PushFrames(Frame(child[1], spawn_iterator(ssi.pegs)),
                                           Frame(parent.sexp, nx.it), rest)])
                 ELSE Result("yield", Some(parent.sexp),
                             [ssi EXCEPT !.stack =
                                YieldFrames(Frame(parent.sexp, nx.it), rest)]))
          ELSE Result("discard", None,
                      [ssi EXCEPT !.stack =
                         DiscardFrames(Frame(parent.sexp, nx.it), rest)]))

\* SexpSubstIter::next: steps until a value is returned or the list is empty
SubstNext(ssi) ==
  Bind(SubstStep(ssi), LAMBDA r :
    CASE r.br \in {"spawn", "discard"} -> SubstNext(r.it)
      [] r.br = "yield" -> Result("some", r.val, r.it)
      [] r.br = "empty" -> Result("none", None, r.it)
      [] OTHER          -> Result("abort", None, r.it))

\* FlattenStep, ending the whole sequence when one SexpSubstIter ends
FlattenStep_stopAtEmpty(it) ==
  IF it.frontiter # None
  THEN Bind(SubstStep(it.frontiter[1]), LAMBDA r :
         IF r.br = "empty"
         THEN Result("end", None, [it EXCEPT !.frontiter = None])
         ELSE Result(r.br, r.val, [it EXCEPT !.frontiter = Some(r.it)]))
  ELSE Bind(IterNext(it.iter), LAMBDA r :
         CASE r.br = "some" ->
                Result("advance", None,
                       [it EXCEPT !.iter = r.it,
                                  !.frontiter = Some(SexpSubstIter_new(r.val[1], it.hole, it.pegs))])
           [] r.br = "none" -> Result("end", None, [it EXCEPT !.iter = r.it])
           [] OTHER         -> Result("abort", None, it))

\* One turn of the loop of Flatten::next: step the current SexpSubstIter, or
\* take the next expression of wkld and build its SexpSubstIter.
FlattenStep(it) ==
  IF it.frontiter # None
  THEN Bind(SubstStep(it.frontiter[1]), LAMBDA r :
         IF r.br = "empty"
         THEN Result("clear", None, [it EXCEPT !.frontiter = None])
         ELSE Result(r.br, r.val, [it EXCEPT !.frontiter = Some(r.it)]))
  ELSE Bind(IterNext(it.iter), LAMBDA r :
         CASE r.br = "some" ->
                Result("advance", None,
                       [it EXCEPT !.iter = r.it,
                                  !.frontiter = Some(SexpSubstIter_new(r.val[1], it.hole, it.pegs))])
           [] r.br = "none" -> Result("end", None, [it EXCEPT !.iter = r.it])
           [] OTHER         -> Result("abort", None, it))

\* Flatten::next
FlattenNext(it) ==
  Bind(FlattenStep(it), LAMBDA r :
    CASE r.br \in {"spawn", "discard", "clear", "advance"} -> FlattenNext(r.it)
      [] r.br = "yield" -> Result("some", r.val, r.it)
      [] r.br = "end"   -> Result("none", None, r.it)
      [] OTHER          -> Result("abort", None, r.it))

\* Box<dyn Iterator<Item = Sexp>>::next, a whole call
IterNext(it) ==
  IF it.tag = "VecIter"
  THEN Bind(VecNext(it), LAMBDA r :
         IF r.br = "vec_some" THEN Result("some", r.val, r.it)
         ELSE Result("none", None, r.it))
  ELSE FlattenNext(it)

\* one step of the outermost iterator
TopStep(it) ==
  CASE it.tag = "VecIter"       -> VecNext(it)
    [] it.tag = "SexpSubstIter" -> SubstStep(it)
    [] OTHER                    -> FlattenStep(it)

(***************************************************************************)
(* The plans enumerated                                                    *)
(***************************************************************************)
A     == Atom("A")
B     == Atom("B")
Plus  == Atom("+")
Minus == Atom("-")
Num(n) == Atom(ToString(n))

\* source expressions: 0 to 3 occurrences of A, flat and nested
Templates ==
  { A, Num(0),
    List(<<Plus, A, A>>), List(<<Plus, A, B>>), List(<<Plus, Num(0), Num(1)>>),
    List(<<Plus, List(<<Minus, A>>), A>>),
    List(<<A, List(<<A, Num(0)>>), A>>),
    List(<<>>) }

SrcLists ==
  { <<t>> : t \in Templates }
    \cup { <<>>, <<List(<<Plus, A, A>>), Num(0)>>, <<Num(0), A>>, <<A, A>> }

\* the numeric pegs 0 .. m-1
NumPegs(m) == [j \in 1..m |-> Num(j - 1)]

PegLists ==
  { NumPegs(m) : m \in 0..MaxPegs }
    \cup { <<Num(1), Num(0)>>, <<Num(0), Num(0)>>, <<List(<<Minus, Num(0)>>), B>>,
           <<A>>, <<Num(0), A>>, <<List(<<Minus, A>>)>> }

\* (+ A A).plug(A, {0, 1, 2}): the walk-through of SexpSubstIter::next
WalkPlan == Plug(Set(<<List(<<Plus, A, A>>)>>), "A", Set(NumPegs(3)))

\* the workload of main
MainPlan ==
  Plug(Plug(Set(<<List(<<Plus, A, B>>)>>), "A", Set(NumPegs(3))),
       "B", Set(<<Atom("a"), Atom("b")>>))

Plans ==
  { Plug(Set(s), "A", Set(p)) : s \in SrcLists, p \in PegLists }
    \cup { WalkPlan, MainPlan,
           \* the second hole is plugged with the first hole's name
           Plug(Plug(Set(<<List(<<Plus, A, B>>)>>), "A", Set(NumPegs(2))), "B", Set(<<A>>)),
           \* a chain whose first hole is nested
           Plug(Plug(Set(<<List(<<Plus, List(<<Minus, A>>), B>>), List(<<A, A>>)>>),
                     "A", Set(NumPegs(2))),
                "B", Set(<<Atom("a"), Atom("b")>>)),
           \* pegs that are themselves a Plug
           Plug(Set(<<List(<<Plus, A, A>>)>>), "A",
                Plug(Set(<<List(<<Minus, B>>), B>>), "B", Set(NumPegs(2)))),
           \* pegs whose own enumeration never ends
           Plug(Set(<<A>>), "A", Plug(Set(<<B>>), "B", Set(<<B>>))),
           \* a source whose enumeration never ends
           Plug(Plug(Set(<<B>>), "B", Set(<<B>>)), "A", Set(NumPegs(1))),
           Set(<<>>), Set(<<A, Num(0), A>>) }

\* the enumerations built from the plan; Next pulls from the first
Enums == {1, 2}

Init ==
  /\ plan \in Plans
  /\ round = [i \in Enums |-> 1]
  /\ iter = [i \in Enums |-> IntoIter(plan)]
  /\ pc = [i \in Enums |-> "idle"]
  /\ out = [i \in Enums |-> <<>>]
  /\ nones = [i \in Enums |-> 0]
  /\ prevOut = [i \in Enums |-> <<>>]

\* the consumer calls next()
Pull(i) ==
  /\ pc[i] = "idle"
  /\ nones[i] < MaxNones
  /\ pc' = [pc EXCEPT ![i] = "next"]
  /\ UNCHANGED <<plan, iter, out, nones, round, prevOut>>

\* the front frame delivers a peg and its expression has the needle: the
\* parent and a child frame are pushed and next() goes on
SubstSpawn(i) ==
  /\ pc[i] = "next"
  /\ TopStep(iter[i]).br = "spawn"
  /\ iter' = [iter EXCEPT ![i] = TopStep(iter[i]).it]
  /\ UNCHANGED <<plan, pc, out, nones, round, prevOut>>

\* the front frame delivers a peg and its expression has no needle: next()
\* returns the expression
SubstYield(i) ==
  /\ pc[i] = "next"
  /\ TopStep(iter[i]).br = "yield"
  /\ iter' = [iter EXCEPT ![i] = TopStep(iter[i]).it]
  /\ out' = [out EXCEPT ![i] = Append(@, TopStep(iter[i]).val[1])]
  /\ pc' = [pc EXCEPT ![i] = "idle"]
  /\ UNCHANGED <<plan, nones, round, prevOut>>

\* SubstDiscard, returning None instead of going on with the next frame
SubstDiscard_returnsNone(i) ==
  /\ pc[i] = "next"
  /\ TopStep(iter[i]).br = "discard"
  /\ iter' = [iter EXCEPT ![i] = TopStep(iter[i]).it]
  /\ nones' = [nones EXCEPT ![i] = @ + 1]
  /\ pc' = [pc EXCEPT ![i] = "idle"]
  /\ UNCHANGED <<plan, out, round, prevOut>>

\* the front frame's iterator is exhausted: the frame is dropped, next() goes on
SubstDiscard(i) ==
  /\ pc[i] = "next"
  /\ TopStep(iter[i]).br = "discard"
  /\ iter' = [iter EXCEPT ![i] = TopStep(iter[i]).it]
  /\ UNCHANGED <<plan, pc, out, nones, round, prevOut>>

\* the work list is empty: SexpSubstIter::next returns None and Flatten drops
\* the SexpSubstIter
FlattenClear(i) ==
  /\ pc[i] = "next"
  /\ TopStep(iter[i]).br = "clear"
  /\ iter' = [iter EXCEPT ![i] = TopStep(iter[i]).it]
  /\ UNCHANGED <<plan, pc, out, nones, round, prevOut>>

\* Flatten takes the next expression of wkld and builds its SexpSubstIter
FlattenAdvance(i) ==
  /\ pc[i] = "next"
  /\ TopStep(iter[i]).br = "advance"
  /\ iter' = [iter EXCEPT ![i] = TopStep(iter[i]).it]
  /\ UNCHANGED <<plan, pc, out, nones, round, prevOut>>

\* wkld is exhausted: next() returns None
FlattenEnd(i) ==
  /\ pc[i] = "next"
  /\ TopStep(iter[i]).br = "end"
  /\ iter' = [iter EXCEPT ![i] = TopStep(iter[i]).it]
  /\ nones' = [nones EXCEPT ![i] = @ + 1]
  /\ pc' = [pc EXCEPT ![i] = "idle"]
  /\ UNCHANGED <<plan, out, round, prevOut>>

\* Workload::Set: the vector iterator returns its next expression
VecSome(i) ==
  /\ pc[i] = "next"
  /\ TopStep(iter[i]).br = "vec_some"
  /\ iter' = [iter EXCEPT ![i] = TopStep(iter[i]).it]
  /\ out' = [out EXCEPT ![i] = Append(@, TopStep(iter[i]).val[1])]
  /\ pc' = [pc EXCEPT ![i] = "idle"]
  /\ UNCHANGED <<plan, nones, round, prevOut>>

\* Workload::Set: the vector iterator is exhausted
VecNone(i) ==
  /\ pc[i] = "next"
  /\ TopStep(iter[i]).br = "vec_none"
  /\ iter' = [iter EXCEPT ![i] = TopStep(iter[i]).it]
  /\ nones' = [nones EXCEPT ![i] = @ + 1]
  /\ pc' = [pc EXCEPT ![i] = "idle"]
  /\ UNCHANGED <<plan, out, round, prevOut>>

\* the work list outgrows memory: the process is aborted
Abort(i) ==
  /\ pc[i] = "next"
  /\ TopStep(iter[i]).br = "abort"
  /\ pc' = [pc EXCEPT ![i] = "abort"]
  /\ UNCHANGED <<plan, iter, out, nones, round, prevOut>>

\* after end of sequence the plan is enumerated again from scratch
Restart(i) ==
  /\ pc[i] = "idle"
  /\ nones[i] >= 1
  /\ round[i] < MaxRounds
  /\ iter' = [iter EXCEPT ![i] = IntoIter(plan)]
  /\ prevOut' = [prevOut EXCEPT ![i] = out[i]]
  /\ out' = [out EXCEPT ![i] = <<>>]
  /\ nones' = [nones EXCEPT ![i] = 0]
  /\ round' = [round EXCEPT ![i] = @ + 1]
  /\ UNCHANGED <<plan, pc>>

Next ==
  \/ Pull(1)
  \/ SubstSpawn(1)
  \/ SubstYield(1)
  \/ SubstDiscard(1)
  \/ FlattenClear(1)
  \/ FlattenAdvance(1)
  \/ FlattenEnd(1)
  \/ VecSome(1)
  \/ VecNone(1)
  \/ Abort(1)
  \/ Restart(1)

Spec == Init /\ [][Next]_vars

\* a call of next() that can take a step does take it
FairSpec == Spec /\ WF_vars(Next)

(***************************************************************************)
(* A SexpSubstIter pulled directly, without the Flatten around it          *)
(***************************************************************************)
\* the work list is empty: SexpSubstIter::next returns None
SubstEmpty(i) ==
  /\ pc[i] = "next"
  /\ TopStep(iter[i]).br = "empty"
  /\ iter' = [iter EXCEPT ![i] = TopStep(iter[i]).it]
  /\ nones' = [nones EXCEPT ![i] = @ + 1]
  /\ pc' = [pc EXCEPT ![i] = "idle"]
  /\ UNCHANGED <<plan, out, round, prevOut>>

\* the plans with one source expression
EnumPlans ==
  {p \in Plans : p.tag = "Plug" /\ p.wkld.tag = "Set" /\ Len(p.wkld.items) = 1}

EnumInit ==
  /\ plan \in EnumPlans
  /\ round = [i \in Enums |-> 1]
  /\ iter = [i \in Enums |->
               SexpSubstIter_new(plan.wkld.items[1], plan.hole, plan.pegs)]
  /\ pc = [i \in Enums |-> "idle"]
  /\ out = [i \in Enums |-> <<>>]
  /\ nones = [i \in Enums |-> 0]
  /\ prevOut = [i \in Enums |-> <<>>]

EnumNext ==
  \/ Pull(1)
  \/ SubstSpawn(1)
  \/ SubstYield(1)
  \/ SubstDiscard(1)
  \/ SubstEmpty(1)
  \/ Abort(1)

EnumSpec == EnumInit /\ [][EnumNext]_vars

(***************************************************************************)
(* Two enumerators built from the same plan, pulled in any interleaving    *)
(***************************************************************************)
TwoPlans ==
  { WalkPlan, MainPlan,
    Plug(Set(<<List(<<Plus, A, A>>), Num(0)>>), "A", Set(NumPegs(2))),
    Plug(Set(<<List(<<Plus, A, A>>)>>), "A",
         Plug(Set(<<List(<<Minus, B>>), B>>), "B", Set(NumPegs(2)))),
    Plug(Set(<<A>>), "A", Set(<<>>)),
    Plug(Set(<<List(<<Plus, A, A>>)>>), "A", Set(<<Num(0), A>>)),
    Set(<<A, Num(0), A>>) }

TwoInit ==
  /\ plan \in TwoPlans
  /\ round = [i \in Enums |-> 1]
  /\ iter = [i \in Enums |-> IntoIter(plan)]
  /\ pc = [i \in Enums |-> "idle"]
  /\ out = [i \in Enums |-> <<>>]
  /\ nones = [i \in Enums |-> 0]
  /\ prevOut = [i \in Enums |-> <<>>]

TwoNext ==
  \E i \in Enums :
    \/ Pull(i)
    \/ SubstSpawn(i)
    \/ SubstYield(i)
    \/ SubstDiscard(i)
    \/ FlattenClear(i)
    \/ FlattenAdvance(i)
    \/ FlattenEnd(i)
    \/ VecSome(i)
    \/ VecNone(i)
    \/ Abort(i)

TwoSpec == TwoInit /\ [][TwoNext]_vars

(***************************************************************************)
(* Vocabulary of the properties                                            *)
(***************************************************************************)
RECURSIVE Count(_, _)
\* the number of atoms equal to h in e
Count(e, h) ==
  IF e.tag = "Atom" THEN (IF e.atom = h THEN 1 ELSE 0)
  ELSE LET RECURSIVE Sum(_)
           Sum(l) == IF l = <<>> THEN 0 ELSE Count(Head(l), h) + Sum(Tail(l))
       IN Sum(e.list)

RECURSIVE Fill(_, _, _), FillList(_, _, _)
\* e with its occurrences of h, in pre-order, replaced by the expressions of
\* ch in turn (the replacements themselves are not searched)
Fill(e, h, ch) ==
  IF e.tag = "Atom"
  THEN IF e.atom = h THEN [e |-> Head(ch), rest |-> Tail(ch)]
       ELSE [e |-> e, rest |-> ch]
  ELSE LET r == FillList(e.list, h, ch)
       IN [e |-> List(r.l), rest |-> r.rest]

FillList(l, h, ch) ==
  IF l = <<>> THEN [l |-> <<>>, rest |-> ch]
  ELSE LET r1 == Fill(Head(l), h, ch)
           r2 == FillList(Tail(l), h, r1.rest)
       IN [l |-> <<r1.e>> \o r2.l, rest |-> r2.rest]

RECURSIVE Pow(_, _)
Pow(m, k) == IF k = 0 THEN 1 ELSE m * Pow(m, k - 1)

IsPrefix(s, t) == Len(s) <= Len(t) /\ \A j \in 1..Len(s) : s[j] = t[j]

\* enumeration i has reported end of sequence
Done(i) == pc[i] = "idle" /\ nones[i] >= 1

\* the plan is Plug(Set([e]), h, Set(pegs))
OneSource ==
  /\ plan.tag = "Plug"
  /\ plan.wkld.tag = "Set"
  /\ Len(plan.wkld.items) = 1
  /\ plan.pegs.tag = "Set"

SrcExpr == plan.wkld.items[1]
PegSeq  == plan.pegs.items
HoleCount == Count(SrcExpr, plan.hole)

\* no peg contains the hole
CleanPegs == \A j \in 1..Len(PegSeq) : Count(PegSeq[j], plan.hole) = 0

\* the assignments of a peg (by its index) to each occurrence of the hole
Assignments == [1..HoleCount -> 1..Len(PegSeq)]

\* the source expression with occurrence j replaced by peg f[j]
Plugged(f) == Fill(SrcExpr, plan.hole, [j \in 1..HoleCount |-> PegSeq[f[j]]]).e

\* the digits of n in base m, k of them, most significant first, as indices
DigitsOf(n, m, k) == [j \in 1..k |-> ((n \div Pow(m, k - j)) % m) + 1]

(***************************************************************************)
(* C1: for Plug(Set([e]), h, Set(pegs)) with k occurrences of h in e and   *)
(* m >= 1 pegs, the enumeration yields exactly m^k expressions, each of    *)
(* them e with every occurrence of h replaced by some peg, and every       *)
(* assignment of pegs to the occurrences is produced exactly once.         *)
(***************************************************************************)
C1_AllAssignmentsOnce ==
  (OneSource /\ Len(PegSeq) >= 1) =>
    /\ pc[1] # "abort"
    /\ \A j \in 1..Len(out[1]) : \E f \in Assignments : out[1][j] = Plugged(f)
    /\ Done(1) =>
         /\ Len(out[1]) = Pow(Len(PegSeq), HoleCount)
         /\ \A f \in Assignments :
              Cardinality({j \in 1..Len(out[1]) : out[1][j] = Plugged(f)})
                = Cardinality({g \in Assignments : Plugged(g) = Plugged(f)})

(***************************************************************************)
(* C2: with k >= 1 occurrences of the hole and m pegs, none containing the *)
(* hole, the i-th output (from 0) is the source expression whose j-th      *)
(* occurrence is replaced by peg d_j, d_1..d_k the base-m digits of i,     *)
(* most significant first; there are m^k outputs.                          *)
(***************************************************************************)
C2_LexicographicOrder ==
  (OneSource /\ HoleCount >= 1 /\ CleanPegs) =>
    /\ Len(out[1]) <= Pow(Len(PegSeq), HoleCount)
    /\ \A j \in 1..Len(out[1]) :
         out[1][j] = Plugged(DigitsOf(j - 1, Len(PegSeq), HoleCount))
    /\ Done(1) => Len(out[1]) = Pow(Len(PegSeq), HoleCount)
    /\ pc[1] # "abort"

\* a complete enumeration of 3 occurrences over 2 pegs
C2_Witness ==
  /\ OneSource /\ CleanPegs /\ Done(1)
  /\ HoleCount = 3 /\ Len(PegSeq) = 2 /\ Len(out[1]) = 8

(***************************************************************************)
(* C3: (+ A A).plug(A, {0, 1, 2}) yields (+ 0 0), (+ 0 1), (+ 0 2),        *)
(* (+ 1 0), (+ 1 1), (+ 1 2), (+ 2 0), (+ 2 1), (+ 2 2) in this order and  *)
(* then reports end of sequence.                                           *)
(***************************************************************************)
PlusOf(x, y) == List(<<Plus, x, y>>)

WalkOutputs ==
  << PlusOf(Num(0), Num(0)), PlusOf(Num(0), Num(1)), PlusOf(Num(0), Num(2)),
     PlusOf(Num(1), Num(0)), PlusOf(Num(1), Num(1)), PlusOf(Num(1), Num(2)),
     PlusOf(Num(2), Num(0)), PlusOf(Num(2), Num(1)), PlusOf(Num(2), Num(2)) >>

C3_WalkThroughOutputs ==
  (plan = WalkPlan) =>
    /\ IsPrefix(out[1], WalkOutputs)
    /\ nones[1] >= 1 => out[1] = WalkOutputs
    /\ pc[1] # "abort"

C3_Witness == plan = WalkPlan /\ Done(1) /\ Len(out[1]) = 9

(***************************************************************************)
(* C4: (+ A B).plug(A, {0,1,2}).plug(B, {a,b}) yields (+ 0 a), (+ 0 b),    *)
(* (+ 1 a), (+ 1 b), (+ 2 a), (+ 2 b) in this order: the hole plugged      *)
(* first varies slower than the hole plugged second.                       *)
(***************************************************************************)
MainOutputs ==
  << PlusOf(Num(0), Atom("a")), PlusOf(Num(0), Atom("b")),
     PlusOf(Num(1), Atom("a")), PlusOf(Num(1), Atom("b")),
     PlusOf(Num(2), Atom("a")), PlusOf(Num(2), Atom("b")) >>

C4_ChainOutputs ==
  (plan = MainPlan) =>
    /\ IsPrefix(out[1], MainOutputs)
    /\ nones[1] >= 1 => out[1] = MainOutputs
    /\ pc[1] # "abort"

C4_Witness == plan = MainPlan /\ Done(1) /\ Len(out[1]) = 6

(***************************************************************************)
(* C5: when the hole does not occur in e and there are m >= 1 pegs, the    *)
(* enumeration yields exactly one expression, e itself, whatever m is:     *)
(* the leaf's frame is dropped at the yield.                               *)
(***************************************************************************)
C5_NoHoleYieldsOnce ==
  (OneSource /\ HoleCount = 0 /\ Len(PegSeq) >= 1) =>
    /\ IsPrefix(out[1], <<SrcExpr>>)
    /\ nones[1] >= 1 => out[1] = <<SrcExpr>>
    /\ (out[1] # <<>> /\ iter[1].frontiter # None) => iter[1].frontiter[1].stack = <<>>
    /\ pc[1] # "abort"

C5_Witness ==
  /\ OneSource /\ HoleCount = 0 /\ Len(PegSeq) = 3
  /\ Done(1) /\ out[1] = <<SrcExpr>>

(***************************************************************************)
(* C6: when pegs enumerates no value, the enumeration of a source          *)
(* expression yields nothing and the first pull reports end of sequence,   *)
(* whether the hole occurs in the expression or not.                       *)
(***************************************************************************)
EmptyPegs ==
  /\ plan.tag = "Plug"
  /\ plan.wkld.tag = "Set"
  /\ plan.pegs = Set(<<>>)

C6_EmptyPegsYieldNothing ==
  /\ [](EmptyPegs => (out[1] = <<>> /\ pc[1] # "abort"))
  /\ (EmptyPegs /\ pc[1] = "next" /\ nones[1] = 0) ~> (nones[1] = 1 /\ out[1] = <<>>)

\* the expression without the hole is not passed through
C6_Witness ==
  /\ OneSource /\ PegSeq = <<>> /\ HoleCount = 0
  /\ Done(1) /\ out[1] = <<>>

(***************************************************************************)
(* C7: Plug(source, hole, pegs) yields the concatenation, in the order of  *)
(* source's expressions e_1, e_2, .., of what one SexpSubstIter seeded     *)
(* with (e_i, fresh pegs) yields on its own; an e_i that yields nothing    *)
(* does not stop the later ones.                                           *)
(***************************************************************************)
RECURSIVE Drain(_), DrainSubst(_)
\* everything an iterator returns until it ends
Drain(it) ==
  LET r == IterNext(it)
  IN IF r.br = "some" THEN <<r.val[1]>> \o Drain(r.it) ELSE <<>>

\* everything a SexpSubstIter returns until it ends
DrainSubst(ssi) ==
  LET r == SubstNext(ssi)
  IN IF r.br = "some" THEN <<r.val[1]>> \o DrainSubst(r.it) ELSE <<>>

\* the outputs of the enumerator of e run alone
Alone(e) == DrainSubst(SexpSubstIter_new(e, plan.hole, plan.pegs))

RECURSIVE ConcatAlone(_)
ConcatAlone(es) == IF es = <<>> THEN <<>> ELSE Alone(Head(es)) \o ConcatAlone(Tail(es))

SourceOutputs == Drain(IntoIter(plan.wkld))

\* the values pegs enumerates
PegSeqOf(pegs) == Drain(IntoIter(pegs))

C7_Concatenation ==
  (plan.tag = "Plug") =>
    /\ IsPrefix(out[1], ConcatAlone(SourceOutputs))
    /\ nones[1] >= 1 => out[1] = ConcatAlone(SourceOutputs)

\* two source expressions, both enumerated to the end
C7_Witness ==
  /\ plan.tag = "Plug" /\ Done(1)
  /\ Len(SourceOutputs) = 2
  /\ Alone(SourceOutputs[1]) # <<>> /\ Alone(SourceOutputs[2]) # <<>>
  /\ Len(out[1]) = Len(Alone(SourceOutputs[1])) + Len(Alone(SourceOutputs[2]))

(***************************************************************************)
(* C8: for every finite plan every pull terminates, yielding one           *)
(* expression or reporting end of sequence, and end of sequence is         *)
(* reported after finitely many pulls.                                     *)
(***************************************************************************)
C8_EveryPullTerminates ==
  /\ (pc[1] = "next") ~> (pc[1] = "idle")
  /\ <>(nones[1] >= 1)

C10_YieldedHasNoHole ==
  /\ [](plan.tag = "Plug" =>
          \A j \in 1..Len(out[1]) : Count(out[1][j], plan.hole) = 0)
  /\ [][(plan.tag = "Plug" /\ Len(out'[1]) = Len(out[1]) + 1) =>
          /\ iter[1].frontiter # None
          /\ iter[1].frontiter[1].stack # <<>>
          /\ out'[1][Len(out'[1])] = Head(iter[1].frontiter[1].stack).sexp
          /\ \A j \in 1..Len(PegSeqOf(plan.pegs)) :
               replace_first(Head(iter[1].frontiter[1].stack).sexp, plan.hole,
                             PegSeqOf(plan.pegs)[j]) = None]_vars

\* a nested occurrence has been replaced in everything yielded
C10_Witness ==
  /\ OneSource /\ SrcExpr = List(<<Plus, List(<<Minus, A>>), A>>)
  /\ Len(PegSeq) = 2 /\ Done(1) /\ Len(out[1]) = 4


(***************************************************************************)
(* C11: enumerating Set(items) yields the expressions of items in the      *)
(* given order, each once, then reports end of sequence; a second          *)
(* enumeration of the same Set yields the same sequence.                   *)
(***************************************************************************)
C11_SetInOrder ==
  (plan.tag = "Set") =>
    /\ IsPrefix(out[1], plan.items)
    /\ nones[1] >= 1 => out[1] = plan.items
    /\ round[1] > 1 => prevOut[1] = plan.items
    /\ pc[1] # "abort"

\* the second enumeration of a Set with a repeated item has ended
C11_Witness ==
  /\ plan = Set(<<A, Num(0), A>>)
  /\ round[1] = 2 /\ Done(1) /\ out[1] = <<A, Num(0), A>>


(***************************************************************************)
(* Vocabulary of the properties of the work list                           *)
(***************************************************************************)
\* the outermost iterator is the Flatten of a Plug
TopPlug == plan.tag = "Plug"

\* the work list of the SexpSubstIter the outermost Flatten is pulling from
StackOf(it) == IF it.frontiter = None THEN <<>> ELSE it.frontiter[1].stack

\* t is what remains of s after dropping frames from its front
IsSuffix(t, s) ==
  /\ Len(t) <= Len(s)
  /\ \A j \in 1..Len(t) : t[j] = s[Len(s) - Len(t) + j]

RECURSIVE ReplaceFirstIn(_, _, _)
\* s, which has an atom equal to h, with the first such atom in pre-order
\* replaced by new and every other node as it was
ReplaceFirstIn(s, h, new) ==
  IF s.tag = "Atom" THEN new
  ELSE LET holders == {j \in 1..Len(s.list) : Count(s.list[j], h) > 0}
           k == CHOOSE j \in holders : \A j2 \in holders : j <= j2
       IN List([j \in 1..Len(s.list) |->
                  IF j = k THEN ReplaceFirstIn(s.list[j], h, new) ELSE s.list[j]])

(***************************************************************************)
(* C12: in a step where the front frame (expr, it) delivers a peg v and    *)
(* expr has the hole, nothing is yielded, (expr, it) stays with it         *)
(* advanced by one value, the frame (replace-first(expr, hole, v), fresh   *)
(* pegs) is put directly ahead of it and the other frames are unchanged;   *)
(* in every step the frames behind the front one are left as they are.     *)
(***************************************************************************)
C12_SpawnAheadOfParent ==
  [][(TopPlug /\ StackOf(iter[1]) # <<>> /\ iter'[1] # iter[1]) =>
       LET st     == StackOf(iter[1])
           parent == Head(st)
           nx     == IterNext(parent.iter)
       IN /\ iter'[1].frontiter # None
          /\ IsSuffix(Tail(st), StackOf(iter'[1]))
          /\ (nx.br = "some" /\ Count(parent.sexp, plan.hole) > 0) =>
               /\ out' = out
               /\ pc'[1] = "next"
               /\ iter'[1].iter = iter[1].iter
               /\ StackOf(iter'[1]) =
                    << Frame(ReplaceFirstIn(parent.sexp, plan.hole, nx.val[1]),
                             IntoIter(plan.pegs)),
                       Frame(parent.sexp, nx.it) >> \o Tail(st)]_vars

\* a grandchild frame has been put ahead of its parent and grandparent
C12_Witness ==
  /\ TopPlug /\ Len(StackOf(iter[1])) = 3 /\ pc[1] = "next"
  /\ Count(StackOf(iter[1])[2].sexp, plan.hole) > 0
  /\ out[1] # <<>>


(***************************************************************************)
(* C13: for a seed expression with k occurrences of the hole and pegs      *)
(* none of which contains the hole, the work list holds at most k + 1      *)
(* frames in every reachable state, whatever the number of pegs and of     *)
(* outputs already produced.                                               *)
(***************************************************************************)
C13_WorkListAtMostKPlusOne ==
  (OneSource /\ CleanPegs) =>
    /\ Len(StackOf(iter[1])) <= HoleCount + 1
    /\ pc[1] # "abort"

\* the deepest work list, late in an enumeration of 27 expressions
C13_Witness ==
  /\ OneSource /\ CleanPegs
  /\ HoleCount = 3 /\ Len(PegSeq) = 3
  /\ Len(StackOf(iter[1])) = 4 /\ Len(out[1]) >= 20


(***************************************************************************)
(* C14: in a chain Plug(Plug(src, h1, P1), h2, P2) every expression an     *)
(* enumerator for h2 is seeded with is a finished output of the inner      *)
(* plan and has no occurrence of h1.                                       *)
(***************************************************************************)
Chain == TopPlug /\ plan.wkld.tag = "Plug"

C14_OuterSeedsAreResolved ==
  /\ [](Chain /\ StackOf(iter[1]) # <<>> =>
          Count(StackOf(iter[1])[Len(StackOf(iter[1]))].sexp, plan.wkld.hole) = 0)
  /\ [][(Chain /\ iter[1].frontiter = None /\ iter'[1].frontiter # None) =>
          LET seed   == Head(StackOf(iter'[1])).sexp
              pulled == Len(SourceOutputs) - Len(Drain(iter'[1].iter))
          IN /\ Len(StackOf(iter'[1])) = 1
             /\ Count(seed, plan.wkld.hole) = 0
             /\ pulled >= 1
             /\ seed = SourceOutputs[pulled]]_vars

\* the enumerator for B has just been seeded with the second output for A
C14_Witness ==
  /\ plan = MainPlan /\ Len(out[1]) = 2
  /\ StackOf(iter[1]) = << Frame(PlusOf(Num(1), B), IntoIter(plan.pegs)) >>


(***************************************************************************)
(* C15: replace_first(needle, new) on s returns None exactly when s has    *)
(* no atom equal to needle; otherwise it returns s with the first such     *)
(* atom in pre-order replaced by new and every other node unchanged, also  *)
(* when new is the needle atom itself; s is not modified.                  *)
(***************************************************************************)
\* the values replace_first is tried with: the pegs and the needle itself
NewValues == PegSeqOf(plan.pegs) \o << Atom(plan.hole) >>

ReplaceFirstAsSpecified(s, needle, new) ==
  LET r == replace_first(s, needle, new)
  IN /\ (r = None) <=> (Count(s, needle) = 0)
     /\ r # None => r = Some(ReplaceFirstIn(s, needle, new))
     /\ (r # None /\ new = Atom(needle)) => r = Some(s)

C15_ReplaceFirst ==
  /\ [](TopPlug =>
          \A j \in 1..Len(StackOf(iter[1])) : \A n \in 1..Len(NewValues) :
             ReplaceFirstAsSpecified(StackOf(iter[1])[j].sexp, plan.hole, NewValues[n]))
  /\ [][(TopPlug /\ StackOf(iter[1]) # <<>>
           /\ Len(StackOf(iter'[1])) = Len(StackOf(iter[1])) + 1) =>
          LET s  == Head(StackOf(iter[1])).sexp
              nx == IterNext(Head(StackOf(iter[1])).iter)
          IN /\ StackOf(iter'[1])[2].sexp = s
             /\ StackOf(iter'[1])[1].sexp = ReplaceFirstIn(s, plan.hole, nx.val[1])]_vars

\* the nested first occurrence has been replaced, the later one is still there
C15_Witness ==
  /\ TopPlug /\ Len(StackOf(iter[1])) = 2
  /\ StackOf(iter[1])[2].sexp = List(<<Plus, List(<<Minus, A>>), A>>)
  /\ StackOf(iter[1])[1].sexp = List(<<Plus, List(<<Minus, Num(1)>>), A>>)


(***************************************************************************)
(* C16: every frame, the initial one and every spawned child, starts with  *)
(* its own enumeration of pegs positioned at the first peg, and pulling a  *)
(* value from one frame's enumeration leaves the position of every other   *)
(* frame's enumeration unchanged.                                          *)
(***************************************************************************)
C16_FreshPegsPerFrame ==
  [][(TopPlug /\ iter'[1] # iter[1] /\ iter'[1].frontiter # None) =>
       LET st  == StackOf(iter[1])
           st2 == StackOf(iter'[1])
           d   == Len(st2) - Len(st)
       IN /\ d > 0 =>
               /\ Drain(st2[1].iter) = PegSeqOf(plan.pegs)
               /\ plan.pegs.tag = "Set" => st2[1].iter.rest = plan.pegs.items
          /\ \A j \in 2..Len(st) : j + d >= 1 => st2[j + d].iter = st[j].iter
          /\ (d >= 0 /\ st # <<>>) =>
               /\ IsSuffix(Drain(st2[1 + d].iter), Drain(st[1].iter))
               /\ Len(Drain(st[1].iter)) - Len(Drain(st2[1 + d].iter)) <= 1]_vars

\* three frames, each at its own position in the pegs
C16_Witness ==
  /\ plan = WalkPlan /\ Len(StackOf(iter[1])) = 3
  /\ StackOf(iter[1])[1].iter.rest = NumPegs(3)
  /\ StackOf(iter[1])[2].iter.rest = << Num(2) >>
  /\ StackOf(iter[1])[3].iter.rest = << Num(1), Num(2) >>


(***************************************************************************)
(* C17: when two enumerators built from the same plan are pulled in any    *)
(* interleaving, each yields exactly the sequence it yields when run       *)
(* alone: a pull on one changes no state of the other.                     *)
(***************************************************************************)
\* what an enumerator of the plan yields when it is the only one
RunAlone == Drain(IntoIter(plan))

\* a step has touched enumerator i
Touched(i) ==
  \/ iter'[i] # iter[i]
  \/ out'[i] # out[i]
  \/ pc'[i] # pc[i]
  \/ nones'[i] # nones[i]

CurrentSeed(it) == SourceOutputs[Len(SourceOutputs) - Len(Drain(it.iter))]

\* the peg most recently pulled from the enumeration of a frame
LastPulled(frame) ==
  PegSeqOf(plan.pegs)[Len(PegSeqOf(plan.pegs)) - Len(Drain(frame.iter))]

C18_AncestorChain ==
  (TopPlug /\ StackOf(iter[1]) # <<>>) =>
    LET st == StackOf(iter[1])
    IN /\ Len(SourceOutputs) - Len(Drain(iter[1].iter)) >= 1
       /\ st[Len(st)].sexp = CurrentSeed(iter[1])
       /\ \A j \in 1..(Len(st) - 1) :
            /\ Len(Drain(st[j + 1].iter)) < Len(PegSeqOf(plan.pegs))
            /\ Count(st[j + 1].sexp, plan.hole) > 0
            /\ st[j].sexp = ReplaceFirstIn(st[j + 1].sexp, plan.hole, LastPulled(st[j + 1]))

\* the work list just before (+ 0 1) is yielded
C18_Witness ==
  /\ plan = WalkPlan /\ pc[1] = "next" /\ out[1] = << PlusOf(Num(0), Num(0)) >>
  /\ StackOf(iter[1]) =
       << Frame(PlusOf(Num(0), Num(1)), [tag |-> "VecIter", rest |-> NumPegs(3)]),
          Frame(PlusOf(Num(0), A), [tag |-> "VecIter", rest |-> << Num(2) >>]),
          Frame(PlusOf(A, A), [tag |-> "VecIter", rest |-> << Num(1), Num(2) >>]) >>


(***************************************************************************)
(* C19: once a pull on a SexpSubstIter has reported exhaustion, its work   *)
(* list is empty and stays empty: every later pull reports exhaustion      *)
(* again and never yields an expression.                                   *)
(***************************************************************************)
C19_ExhaustionIsFinal ==
  /\ [](nones[1] >= 1 =>
          /\ iter[1].stack = <<>>
          /\ pc[1] = "next" => TopStep(iter[1]).br = "empty")
  /\ [][nones[1] >= 1 =>
          /\ iter'[1] = iter[1]
          /\ out'[1] = out[1]
          /\ nones'[1] >= nones[1]]_vars

\* after nine outputs a second pull has reported exhaustion again
C19_Witness ==
  /\ nones[1] = 2 /\ pc[1] = "idle"
  /\ Len(out[1]) = 9 /\ iter[1].stack = <<>>

====
